---- MODULE Spec2Model ----
(***************************************************************************)
(* Model of src/src/main.py: equal-weight portfolio risk math, the Monte   *)
(* Carlo sampler and estimators, historical VaR and the returns            *)
(* calculator.                                                             *)
(*                                                                         *)
(* Numbers.  A float is modelled as a pair <<n, d>>: for d > 0 the         *)
(* rational n/d in lowest terms, and for d = 0 one of the IEEE special     *)
(* values, <<0,0>> = NaN, <<1,0>> = +inf, <<-1,0>> = -inf.  +, -, * and /  *)
(* are exact on rationals and follow IEEE on the special values (numpy     *)
(* does not raise on a division by zero, it returns inf or NaN); the       *)
(* square root is rounded down to a multiple of 1/SqrtRes.                 *)
(***************************************************************************)
EXTENDS Integers, Sequences, FiniteSets, TLC

VARIABLES
    \* risk math (pure functions): the arguments and the last call
    cov_P, tickers, riskOut,
    \* Monte Carlo: the caller's arguments (universe, cov, asset, k, num_sims),
    \* the generator outputs revealed so far, the caller's own generator, the
    \* last completed call, and an earlier estimate the caller has kept
    universe, cov, asset, k, num_sims, oracle, callerRng, last, log,
    \* historical VaR: the returns panel and the last call
    returns, varOut,
    \* returns calculator: the price panel, the pandas fill behaviour, the output
    prices, fillPad, retOut

vars == <<cov_P, tickers, riskOut, universe, cov, asset, k, num_sims, oracle,
          callerRng, last, log, returns, varOut, prices, fillPad, retOut>>

riskVars == <<cov_P, tickers, riskOut>>
mcVars == <<universe, cov, asset, k, num_sims, oracle, callerRng, last, log>>
varVars == <<returns, varOut>>
retVars == <<prices, fillPad, retOut>>

-----------------------------------------------------------------------------
(* Bounds of the model *)

\* resolution of the modelled square root: results are multiples of 1/SqrtRes
SqrtRes == 1000
\* largest sub-covariance dimension drawn for the risk-math functions
MaxDim == 3
\* the tickers are 1..NumSyms
NumSyms == 3
\* largest num_sims passed to an estimator
MaxSims == 2
\* most draws the caller makes from its own generator
MaxDraws == 2
\* the rows of the largest returns panel
NumDates == 5
\* the rows of the largest prices panel
NumRows == 3

-----------------------------------------------------------------------------
(* Floats *)

NaN == <<0, 0>>
PosInf == <<1, 0>>
NegInf == <<-1, 0>>
Zero == <<0, 1>>

IsNaN(x) == x = NaN
IsFinite(x) == x[2] > 0
IsInf(x) == x[2] = 0 /\ x[1] # 0

Abs(i) == IF i < 0 THEN -i ELSE i
Sign(i) == IF i < 0 THEN -1 ELSE IF i > 0 THEN 1 ELSE 0

RECURSIVE GCD(_, _)
GCD(a, b) == IF b = 0 THEN a ELSE GCD(b, a % b)

\* the rational n/d, d # 0, in lowest terms with a positive denominator
Frac(n, d) ==
    LET g == GCD(Abs(n), Abs(d))
        s == IF d < 0 THEN -1 ELSE 1
    IN <<(s * n) \div g, (s * d) \div g>>

Num(n) == <<n, 1>>

FNeg(x) == <<-x[1], x[2]>>

FAdd(x, y) ==
    IF IsNaN(x) \/ IsNaN(y) THEN NaN
    ELSE IF x[2] = 0 /\ y[2] = 0 THEN (IF x = y THEN x ELSE NaN)
    ELSE IF x[2] = 0 THEN x
    ELSE IF y[2] = 0 THEN y
    ELSE LET g == GCD(x[2], y[2])
         IN Frac(x[1] * (y[2] \div g) + y[1] * (x[2] \div g), (x[2] \div g) * y[2])

FSub(x, y) == FAdd(x, FNeg(y))

FMul(x, y) ==
    IF IsNaN(x) \/ IsNaN(y) THEN NaN
    ELSE IF x[2] = 0 \/ y[2] = 0
         THEN (IF x[1] = 0 \/ y[1] = 0 THEN NaN ELSE <<Sign(x[1]) * Sign(y[1]), 0>>)
    ELSE LET g == GCD(Abs(x[1]), y[2])
             h == GCD(Abs(y[1]), x[2])
         IN Frac((x[1] \div g) * (y[1] \div h), (x[2] \div h) * (y[2] \div g))

\* numpy division: x/0 is +-inf, 0/0 is NaN, nothing is raised
FDiv(x, y) ==
    IF IsNaN(x) \/ IsNaN(y) THEN NaN
    ELSE IF x[2] = 0 /\ y[2] = 0 THEN NaN
    ELSE IF x[2] = 0 THEN <<x[1] * (IF y[1] < 0 THEN -1 ELSE 1), 0>>
    ELSE IF y[2] = 0 THEN Zero
    ELSE IF y[1] = 0 THEN (IF x[1] = 0 THEN NaN ELSE <<Sign(x[1]), 0>>)
    ELSE FMul(x, IF y[1] < 0 THEN <<-y[2], -y[1]>> ELSE <<y[2], y[1]>>)

\* a/b < c/d for a, c >= 0 and b, d > 0, by Euclid's algorithm (no products)
RECURSIVE LessPos(_, _, _, _)
LessPos(a, b, c, d) ==
    IF a \div b # c \div d THEN a \div b < c \div d
    ELSE IF c % d = 0 THEN FALSE
    ELSE IF a % b = 0 THEN TRUE
    ELSE LessPos(d, c % d, b, a % b)

\* x < y, for x and y not NaN
FLess(x, y) ==
    IF x[2] = 0 \/ y[2] = 0
    THEN (IF x[2] = 0 /\ y[2] = 0 THEN x[1] < y[1]
          ELSE IF x[2] = 0 THEN x[1] < 0 ELSE y[1] > 0)
    ELSE IF x[1] < 0 /\ y[1] >= 0 THEN TRUE
    ELSE IF x[1] >= 0 /\ y[1] < 0 THEN FALSE
    ELSE IF x[1] < 0 THEN LessPos(-y[1], y[2], -x[1], x[2])
    ELSE LessPos(x[1], x[2], y[1], y[2])

FLeq(x, y) == x = y \/ FLess(x, y)

\* the largest s in lo..hi with s * s <= m, given lo * lo <= m
RECURSIVE ISqrtIn(_, _, _)
ISqrtIn(m, lo, hi) ==
    IF lo >= hi THEN lo
    ELSE LET mid == (lo + hi + 1) \div 2
         IN IF mid * mid <= m THEN ISqrtIn(m, mid, hi) ELSE ISqrtIn(m, lo, mid - 1)

ISqrt(m) == ISqrtIn(m, 0, IF m < 46340 THEN m ELSE 46340)

\* floor(n * SqrtRes^2 / d) for n >= 0, d > 0, by long division
ScaledFloor(n, d) ==
    LET q0 == n \div d
        r0 == n % d
        q1 == q0 * SqrtRes + (r0 * SqrtRes) \div d
        r1 == (r0 * SqrtRes) % d
    IN q1 * SqrtRes + (r1 * SqrtRes) \div d

\* np.sqrt: NaN for a negative argument, rounded down to a multiple of 1/SqrtRes
FSqrt(x) ==
    IF IsNaN(x) \/ x[1] < 0 THEN NaN
    ELSE IF x[2] = 0 THEN PosInf
    ELSE Frac(ISqrt(ScaledFloor(x[1], x[2])), SqrtRes)

RECURSIVE FSum(_)
FSum(s) == IF s = <<>> THEN Zero ELSE FAdd(s[1], FSum(Tail(s)))

-----------------------------------------------------------------------------
(* Risk math *)

\* w = np.ones(k) / k
EqualWeights(n) == [i \in 1..n |-> FDiv(Num(1), Num(n))]

\* w @ v
Dot(w, v) == FSum([i \in 1..Len(v) |-> FMul(w[i], v[i])])

\* cov_P @ w
MatVec(m, w) == [i \in 1..Len(m) |-> Dot(m[i], w)]

\* w @ cov_P
VecMat(w, m) == [j \in 1..Len(m) |-> FSum([i \in 1..Len(m) |-> FMul(w[i], m[i][j])])]

\* w @ cov_P @ w: the equal-weight portfolio variance
QuadForm(m) ==
    LET w == EqualWeights(Len(m))
    IN Dot(VecMat(w, m), w)

\* a slip: the weights are np.ones(k), not divided by k
sigma_unit_weights(m) ==
    LET w == [i \in 1..Len(m) |-> Num(1)]
    IN FSqrt(Dot(VecMat(w, m), w))

portfolio_sigma(m) == FSqrt(QuadForm(m))

\* tickers.index(asset): the first position holding asset; 0 stands for ValueError
RECURSIVE IndexFrom(_, _, _)
IndexFrom(s, a, i) ==
    IF i > Len(s) THEN 0
    ELSE IF s[i] = a THEN i
    ELSE IndexFrom(s, a, i + 1)

Index(s, a) == IndexFrom(s, a, 1)

mrc_vec(m) ==
    LET w == EqualWeights(Len(m))
        sigma_p == FSqrt(Dot(VecMat(w, m), w))
        cw == MatVec(m, w)
    IN [i \in 1..Len(m) |-> FDiv(cw[i], sigma_p)]

Ok(v) == [kind |-> "ok", val |-> v]
Raise(e) == [kind |-> e, val |-> <<>>]

\* a slip: the component is divided by the variance, the square root forgotten
mrc_no_sqrt(m, tk, a) ==
    LET idx == Index(tk, a)
        w == EqualWeights(Len(m))
    IN IF idx = 0 THEN Raise("ValueError")
       ELSE Ok(FDiv(MatVec(m, w)[idx], QuadForm(m)))

mrc_for_asset(m, tk, a) ==
    LET idx == Index(tk, a)
    IN IF idx = 0 THEN Raise("ValueError") ELSE Ok(mrc_vec(m)[idx])

-----------------------------------------------------------------------------
(* Risk math called on its own: the inputs *)

\* n hundredths
Pct(n) == Frac(n, 100)

\* one-factor covariances beta_i * beta_j + [i = j] * idio_i, in hundredths:
\* symmetric and positive semi-definite by construction.  Each ticker has a
\* loading <<beta, idio>>.
Loadings == {<<0, 0>>, <<1, 0>>, <<-1, 0>>, <<1, 3>>, <<1, 8>>}

OneFactor(ld) ==
    [i \in 1..Len(ld) |->
        [j \in 1..Len(ld) |->
            Pct(ld[i][1] * ld[j][1] + (IF i = j THEN ld[i][2] ELSE 0))]]

Ident(n) == [i \in 1..n |-> i]
Reverse(s) == [i \in 1..Len(s) |-> s[Len(s) + 1 - i]]

NoCall == [fn |-> "none"]

McIdle ==
    /\ universe = <<>> /\ cov = <<>> /\ asset = 0 /\ k = 0 /\ num_sims = 0
    /\ oracle = <<>> /\ callerRng = <<>> /\ last = NoCall /\ log = NoCall
VarIdle == returns = <<>> /\ varOut = NoCall
RetIdle == prices = <<>> /\ fillPad = FALSE /\ retOut = NoCall
RiskIdle == cov_P = <<>> /\ tickers = <<>> /\ riskOut = NoCall

RiskInit ==
    /\ \E n \in 1..MaxDim :
         /\ \E ld \in [1..n -> Loadings] : cov_P = OneFactor(ld)
         /\ tickers \in {Ident(n), Reverse(Ident(n))}
    /\ riskOut = NoCall
    /\ McIdle /\ VarIdle /\ RetIdle

CallPortfolioSigma ==
    /\ riskOut' = [fn |-> "portfolio_sigma", asset |-> 0,
                   out |-> Ok(portfolio_sigma(cov_P))]
    /\ UNCHANGED <<cov_P, tickers, mcVars, varVars, retVars>>

\* a may be a ticker that is not in the list
CallMrcForAsset(a) ==
    /\ riskOut' = [fn |-> "mrc_for_asset", asset |-> a,
                   out |-> mrc_for_asset(cov_P, tickers, a)]
    /\ UNCHANGED <<cov_P, tickers, mcVars, varVars, retVars>>

\* the decomposition test of the spec's section 8: sigma, and the MRC of every
\* ticker of the list
CallDecomposition ==
    /\ riskOut' = [fn |-> "decomposition", asset |-> 0,
                   out |-> Ok(portfolio_sigma(cov_P)),
                   mrcs |-> [i \in 1..Len(tickers) |->
                               mrc_for_asset(cov_P, tickers, tickers[i])]]
    /\ UNCHANGED <<cov_P, tickers, mcVars, varVars, retVars>>

RiskNext ==
    \/ CallPortfolioSigma
    \/ \E a \in 1..MaxDim : CallMrcForAsset(a)
    \/ CallDecomposition

SpecRisk == RiskInit /\ [][RiskNext]_vars

-----------------------------------------------------------------------------
(* Monte Carlo sampling *)

Syms == 1..NumSyms
Seeds == {42, 7}

\* np.random.default_rng(seed).  A generator is deterministic: its state is its
\* seed and the requests it has served, <<population size, sample size>> each.
default_rng(seed) == [seed |-> seed, trace |-> <<>>]

\* the generator after choice(a, size=m, replace=False) on len(a) = n
Advance(g, n, m) == [g EXCEPT !.trace = Append(@, <<n, m>>)]

\* choice raises ValueError: negative size, or a sample larger than the population
ChoiceFails(n, m) == m < 0 \/ m > n

\* what choice(a, size=m, replace=False) can return, as positions of a: m
\* distinct positions in any order
Arrangements(n, m) ==
    {s \in [1..m -> 1..n] : \A i, j \in 1..m : i # j => s[i] # s[j]}

\* a slip: the asset is left in the population
others_with_asset(u, a) == u

\* [u for u in universe if u != asset]
others(u, a) == SelectSeq(u, LAMBDA x : x # a)

\* a slip: the asset is not appended to the pick
sample_without_asset(u, a, kk, idx) ==
    [i \in 1..Len(idx) |-> others(u, a)[idx[i]]]

\* P = list(np.append(pick, asset)), pick being the positions idx of others
sample_portfolio_with_asset(u, a, kk, idx) ==
    Append([i \in 1..Len(idx) |-> others(u, a)[idx[i]]], a)

\* the generator g serves choice(others, size=m): the positions it can return
\* are those revealed earlier for the same seed and requests, or any
Draws(g, n, m) ==
    IF Advance(g, n, m) \in DOMAIN oracle
    THEN {oracle[Advance(g, n, m)]}
    ELSE Arrangements(n, m)

\* the elements of the set S of tickers, ascending
AscendingSeq(S) == SelectSeq(Ident(NumSyms), LAMBDA x : x \in S)

\* a slip: the rows and columns come in the index's order, not in P's
subcov_sorted(c, P) ==
    IF \E i \in 1..Len(P) : P[i] \notin DOMAIN c THEN Raise("KeyError")
    ELSE Ok([i \in 1..Len(P) |-> [j \in 1..Len(P) |->
                c[AscendingSeq({P[n] : n \in 1..Len(P)})[i]]
                 [AscendingSeq({P[n] : n \in 1..Len(P)})[j]]]])

\* cov.loc[P, P].to_numpy(): KeyError when a ticker is not in cov's index
subcov(c, P) ==
    IF \E i \in 1..Len(P) : P[i] \notin DOMAIN c THEN Raise("KeyError")
    ELSE Ok([i \in 1..Len(P) |-> [j \in 1..Len(P) |-> c[P[i]][P[j]]]])

-----------------------------------------------------------------------------
(* The sampler called by the caller, with the caller's generator *)

\* the universes: the tickers of a non-empty subset of Syms, ascending
Universes == {AscendingSeq(S) : S \in (SUBSET Syms) \ {{}}}

\* the caller holds a generator and no covariance frame
SampleInit ==
    /\ universe \in Universes
    /\ asset \in Syms
    /\ k \in 0..(Len(universe) + 2)
    /\ \E seed \in Seeds : callerRng = default_rng(seed)
    /\ oracle = <<>> /\ cov = <<>> /\ num_sims = 0
    /\ last = NoCall /\ log = NoCall
    /\ RiskIdle /\ VarIdle /\ RetIdle

\* sample_portfolio_with_asset(universe, asset, k, callerRng)
CallSample ==
    /\ callerRng # <<>>
    /\ Len(callerRng.trace) < MaxDraws
    /\ LET n == Len(others(universe, asset))
       IN IF ChoiceFails(n, k - 1)
          THEN /\ last' = [fn |-> "sample", rng |-> callerRng, out |-> Raise("ValueError")]
               /\ UNCHANGED <<oracle, callerRng>>
          ELSE \E idx \in Draws(callerRng, n, k - 1) :
               /\ oracle' = oracle @@ (Advance(callerRng, n, k - 1) :> idx)
               /\ callerRng' = Advance(callerRng, n, k - 1)
               /\ last' = [fn |-> "sample", rng |-> callerRng,
                           out |-> Ok(sample_portfolio_with_asset(universe, asset, k, idx))]
    /\ UNCHANGED <<universe, cov, asset, k, num_sims, log>>
    /\ UNCHANGED <<riskVars, varVars, retVars>>

-----------------------------------------------------------------------------
(* Monte Carlo estimators *)

\* the caller's covariance frames, indexed by ticker.  CovA covers every ticker:
\* tickers 1 and 2 are perfectly anti-correlated (an equal-weight portfolio of
\* the two has zero variance).  CovB lacks the last ticker.
LoadA(t) ==
    IF t % 4 = 1 THEN <<1, 0>>
    ELSE IF t % 4 = 2 THEN <<-1, 0>>
    ELSE IF t % 4 = 3 THEN <<1, 3>>
    ELSE <<1, 8>>
LoadB(t) == <<1, t * t - 1>>

CovOf(ld) ==
    [a \in DOMAIN ld |-> [b \in DOMAIN ld |->
        Pct(ld[a][1] * ld[b][1] + (IF a = b THEN ld[a][2] ELSE 0))]]

\* the tickers of the estimator runs
EstTickers == {1, 2, 3}

CovA == CovOf([t \in EstTickers |-> LoadA(t)])
CovB == CovOf([t \in EstTickers \ {3} |-> LoadB(t)])

\* arr.mean()
Mean(v) == FDiv(FSum(v), Num(Len(v)))

\* a slip: the population standard deviation (ddof = 0)
StdDdof0(v) ==
    LET mu == Mean(v)
        sq == [i \in 1..Len(v) |-> FMul(FSub(v[i], mu), FSub(v[i], mu))]
    IN FSqrt(FDiv(FSum(sq), Num(Len(v))))

\* arr.std(ddof=1): sqrt(sum((x - mean)^2) / max(n - 1, 0))
StdDdof1(v) ==
    LET mu == Mean(v)
        sq == [i \in 1..Len(v) |-> FMul(FSub(v[i], mu), FSub(v[i], mu))]
    IN FSqrt(FDiv(FSum(sq), Num(IF Len(v) > 1 THEN Len(v) - 1 ELSE 0)))

\* what expected_sigma_and_se returns for the sigmas of its trials
SigmaAndSe(sigmas) ==
    <<Mean(sigmas), FDiv(StdDdof1(sigmas), FSqrt(Num(Len(sigmas))))>>

\* a slip: the generator is seeded from the operating system's entropy, a seed
\* no earlier call has had
default_rng_unseeded(seed) ==
    [seed |-> 1000 + Cardinality(DOMAIN oracle), trace |-> <<>>]

\* rng = np.random.default_rng(seed), on entry to an estimator
EstimatorRng(seed) == default_rng(seed)

\* the generator g after i more requests choice(others, size=m) on len(others) = n
GenAfter(g, n, m, i) == [g EXCEPT !.trace = @ \o [j \in 1..i |-> <<n, m>>]]

\* the universes of the estimator runs
EstUniverses == {<<1>>, <<1, 2>>, <<1, 2, 3>>}

\* the caller holds a covariance frame and no generator of its own
\* the caller holds a covariance frame and a generator of its own, and draws
\* portfolios itself between its estimator calls
MixInit ==
    /\ universe = <<1, 2, 3>>
    /\ cov = CovA
    /\ asset = 3
    /\ k = 2
    /\ num_sims \in 1..MaxSims
    /\ \E seed \in Seeds : callerRng = default_rng(seed)
    /\ oracle = <<>>
    /\ last = NoCall /\ log = NoCall
    /\ RiskIdle /\ VarIdle /\ RetIdle

EstInit ==
    /\ universe \in EstUniverses
    /\ cov \in {CovA, CovB}
    /\ asset \in EstTickers
    /\ k \in 0..(Len(universe) + 2)
    /\ num_sims \in 0..MaxSims
    /\ oracle = <<>> /\ callerRng = <<>>
    /\ last = NoCall /\ log = NoCall
    /\ RiskIdle /\ VarIdle /\ RetIdle

\* the statistic of one trial on portfolio P: cov_P = subcov(cov, P), then
\* portfolio_sigma(cov_P) or mrc_for_asset(cov_P, P, asset); or the exception
TrialStat(c, fn, a, P) ==
    LET sc == subcov(c, P)
    IN IF sc.kind # "ok" THEN sc
       ELSE IF fn = "sigma" THEN Ok(portfolio_sigma(sc.val))
       ELSE mrc_for_asset(sc.val, P, a)

\* every portfolio the sampler can return in the estimator runs
Portfolios ==
    UNION {{s \in [1..n -> EstTickers] : \A i, j \in 1..n : i # j => s[i] # s[j]} :
              n \in 1..Cardinality(EstTickers)}

\* TrialStat tabulated for the two frames: the functions are pure, and each
\* value is computed once
TrialStatA ==
    [key \in {"sigma", "mrc"} \X EstTickers \X Portfolios |->
        TrialStat(CovA, key[1], key[2], key[3])] @@ <<>>
TrialStatB ==
    [key \in {"sigma", "mrc"} \X EstTickers \X Portfolios |->
        TrialStat(CovB, key[1], key[2], key[3])] @@ <<>>

TrialStatMemo(c, fn, a, P) ==
    IF c = CovA THEN TrialStatA[<<fn, a, P>>]
    ELSE IF c = CovB THEN TrialStatB[<<fn, a, P>>]
    ELSE TrialStat(c, fn, a, P)

\* the loop body for the positions idx the generator returns: the portfolio, and
\* the statistic or the exception raised
TrialOf(fn, idx) ==
    LET P == sample_portfolio_with_asset(universe, asset, k, idx)
    IN [P |-> P, st |-> TrialStatMemo(cov, fn, asset, P)]

\* the first trial that raises, 0 when none does
RECURSIVE FirstFailure(_, _)
FirstFailure(trials, i) ==
    IF i > Len(trials) THEN 0
    ELSE IF trials[i].st.kind # "ok" THEN i
    ELSE FirstFailure(trials, i + 1)

\* the value returned after the loop
Estimate(fn, vals) == IF fn = "sigma" THEN SigmaAndSe(vals) ELSE Mean(vals)

\* the call ends with out (a value or an exception) after the trials ran; the
\* caller may note the outcome to compare a later call with
Finish(fn, seed, out, Ps, vals) ==
    LET call == [fn |-> fn, seed |-> seed, out |-> out, Ps |-> Ps, vals |-> vals]
    IN \/ /\ last' = call @@ [noted |-> FALSE]
          /\ log' = log
       \/ /\ log = NoCall
          /\ last' = call @@ [noted |-> TRUE]
          /\ log' = [fn |-> fn, seed |-> seed, out |-> out]

\* expected_sigma_and_se (fn = "sigma") or expected_mrc (fn = "mrc"), from entry
\* to return: the generator is created, the trials run in order until one
\* raises, and the estimate of the trial values is returned
CallEstimator(fn, seed) ==
    /\ cov # <<>>
    /\ LET n == Len(others(universe, asset))
           g0 == EstimatorRng(seed)
       IN IF num_sims = 0
          THEN Finish(fn, seed, Ok(Estimate(fn, <<>>)), <<>>, <<>>) /\ oracle' = oracle
          ELSE IF ChoiceFails(n, k - 1)
          THEN Finish(fn, seed, Raise("ValueError"), <<>>, <<>>) /\ oracle' = oracle
          ELSE \E idxs \in [1..num_sims -> Arrangements(n, k - 1)] :
               \* idxs[i] is what the generator returns to the i-th request (the
               \* requests after an exception are never made)
               /\ \A i \in 1..num_sims :
                     idxs[i] \in Draws(GenAfter(g0, n, k - 1, i - 1), n, k - 1)
               /\ \E trials \in {[i \in 1..num_sims |-> TrialOf(fn, idxs[i])] \o <<>>} :
                  \E failed \in {FirstFailure(trials, 1)} :
                  LET ran == IF failed = 0 THEN num_sims ELSE failed
                      done == IF failed = 0 THEN num_sims ELSE failed - 1
                      Ps == [i \in 1..ran |-> trials[i].P]
                      vals == [i \in 1..done |-> trials[i].st.val]
                  IN /\ oracle' = oracle @@
                           [g \in {GenAfter(g0, n, k - 1, i) : i \in 1..ran} |->
                               idxs[Len(g.trace)]]
                     /\ Finish(fn, seed,
                               IF failed = 0 THEN Ok(Estimate(fn, vals))
                               ELSE trials[failed].st,
                               Ps, vals)
    /\ UNCHANGED <<universe, cov, asset, k, num_sims, callerRng>>
    /\ UNCHANGED <<riskVars, varVars, retVars>>

-----------------------------------------------------------------------------
(* Monte Carlo: the two callers *)

MCInit == SampleInit \/ EstInit \/ MixInit

MCNext ==
    \/ CallSample
    \/ \E fn \in {"sigma", "mrc"}, seed \in Seeds : CallEstimator(fn, seed)

SpecMC == MCInit /\ [][MCNext]_vars

-----------------------------------------------------------------------------
(* Historical value at risk *)

\* the columns of the returns panel
Cols == {1, 2}

\* the dates of the panel's index, ascending with gaps: 1, 2, 4, 5, 6, 8, ...
DateOf(i) == i + (i \div 3)

\* the returns of the first column, from which the panels take theirs
ExampleSeries == <<Pct(-5), Pct(-2), Pct(1), Pct(3), Pct(4)>>

\* the rotations of ExampleSeries the panels use
Rotations == {0, 2}

\* the returns of the second column
OtherSeries(i) == Pct(((i * i) % 7) - 3)

\* a panel of n rows: the first column is ExampleSeries rotated by rot, with a
\* missing value at row gap (none when gap = 0); the second has one at row 1
\* when gap = n
Panel(n, rot, gap) ==
    [i \in 1..n |->
        [date |-> DateOf(i),
         cells |-> << IF i = gap THEN NaN
                      ELSE ExampleSeries[((i + rot - 1) % Len(ExampleSeries)) + 1],
                      IF i = 1 /\ gap = n THEN NaN ELSE OtherSeries(i) >>]]

\* the portfolios asked for: columns of the panel, in any order
VarPortfolios == {<<1>>, <<2>>, <<1, 2>>, <<2, 1>>}

\* the confidence levels asked for
Confidences == {Frac(95, 100), Frac(1, 2), Num(1), Frac(21, 20)}

VarInit ==
    /\ \E n \in 1..NumDates, rot \in Rotations, gap \in 0..NumDates :
          /\ gap <= n
          /\ returns = Panel(n, rot, gap)
    /\ varOut = NoCall
    /\ RiskIdle /\ McIdle /\ RetIdle

\* a slip: the end date is excluded from the window
InWindowHalfOpen(d, start, end) == start <= d /\ d < end

\* returns.loc[start:end]: label slicing keeps the dates from start to end,
\* both included
InWindow(d, start, end) == start <= d /\ d <= end

\* portfolio_returns(returns, P, start, end): sub = returns.loc[start:end, P],
\* then sub @ w with w = np.ones(k) / k
portfolio_returns(ret, P, start, end) ==
    LET sub == SelectSeq(ret, LAMBDA r : InWindow(r.date, start, end))
        w == EqualWeights(Len(P))
    IN [i \in 1..Len(sub) |->
          FSum([j \in 1..Len(P) |-> FMul(sub[i].cells[P[j]], w[j])])] \o <<>>

\* s with the number x put at its place, s being ascending
RECURSIVE Insert(_, _)
Insert(s, x) ==
    IF s = <<>> THEN <<x>>
    ELSE IF FLeq(x, s[1]) THEN <<x>> \o s
    ELSE <<s[1]>> \o Insert(Tail(s), x)

\* the numbers of s, ascending
RECURSIVE Sorted(_)
Sorted(s) == IF s = <<>> THEN <<>> ELSE Insert(Sorted(Tail(s)), s[1])

\* the floor of the non-negative finite x
Floor(x) == x[1] \div x[2]

\* np.nanquantile(v, q), method 'linear': ValueError for q outside [0, 1]; NaN
\* when no value is left once the NaN are removed; else the value at position
\* q * (n - 1) of the sorted values, interpolated between its two neighbours
nanquantile(v, q) ==
    IF FLess(q, Zero) \/ FLess(Num(1), q) THEN Raise("ValueError")
    ELSE LET x == Sorted(SelectSeq(v, LAMBDA e : ~IsNaN(e)))
             n == Len(x)
             pos == FMul(q, Num(n - 1))
             lo == Floor(pos)
             frac == FSub(pos, Num(lo))
         IN IF n = 0 THEN Ok(NaN)
            ELSE IF lo + 1 >= n THEN Ok(x[n])
            ELSE Ok(FAdd(x[lo + 1], FMul(frac, FSub(x[lo + 2], x[lo + 1]))))

\* historical_var(returns, P, start, end, confidence)
historical_var(ret, P, start, end, confidence) ==
    LET rp == portfolio_returns(ret, P, start, end)
        alpha == FSub(Num(1), confidence)
        q_alpha == nanquantile(rp, alpha)
    IN IF q_alpha.kind # "ok" THEN q_alpha ELSE Ok(FNeg(q_alpha.val))

\* the one call of a run
CallHistoricalVar(P, start, end, confidence) ==
    /\ returns # <<>> /\ varOut = NoCall
    /\ varOut' = [fn |-> "historical_var", P |-> P, start |-> start, end |-> end,
                  confidence |-> confidence,
                  out |-> historical_var(returns, P, start, end, confidence)]
    /\ UNCHANGED returns
    /\ UNCHANGED <<riskVars, mcVars, retVars>>

VarNext ==
    \E P \in VarPortfolios, confidence \in Confidences :
    \E start, end \in 0..(DateOf(Len(returns)) + 1) :
        CallHistoricalVar(P, start, end, confidence)

SpecVar == VarInit /\ [][VarNext]_vars

-----------------------------------------------------------------------------
(* Returns from prices *)

\* the closes of the first column: missing, zero, or a positive price
PriceValues == {NaN, Zero, Num(4), Num(5)}

\* a panel of n rows in date order: the first column holds c1; a second column,
\* when there is one, holds the closes 2, 3, 4, ... with row gap missing
PricePanel(n, c1, two, gap) ==
    [t \in 1..n |->
        IF two THEN <<c1[t], IF t = gap THEN NaN ELSE Num(t + 1)>>
        ELSE <<c1[t]>>]

\* pandas before 3.0 forward-fills the prices inside pct_change
\* (fill_method = 'pad'); from 3.0 on it does not
RetInit ==
    /\ \E n \in 1..NumRows :
       \E c1 \in [1..n -> PriceValues], two \in BOOLEAN, gap \in 0..n :
          /\ ~two => gap = 0
          /\ prices = PricePanel(n, c1, two, gap)
    /\ fillPad \in BOOLEAN
    /\ retOut = NoCall
    /\ RiskIdle /\ McIdle /\ VarIdle

\* DataFrame.ffill(): a missing price takes the last present price above it
RECURSIVE Filled(_, _, _)
Filled(p, t, c) ==
    IF t = 1 \/ ~IsNaN(p[t][c]) THEN p[t][c] ELSE Filled(p, t - 1, c)

\* prices.pct_change(): data / data.shift(1) - 1, data being the prices,
\* forward-filled when pad; the first row has no previous row
pct_change(p, pad) ==
    [t \in 1..Len(p) |-> [c \in 1..Len(p[t]) |->
        IF t = 1 THEN NaN
        ELSE IF pad THEN FSub(FDiv(Filled(p, t, c), Filled(p, t - 1, c)), Num(1))
        ELSE FSub(FDiv(p[t][c], p[t - 1][c]), Num(1))]]

\* DataFrame.dropna(): the rows with no NaN cell, each with its date
dropna(f) ==
    SelectSeq([t \in 1..Len(f) |-> [t |-> t, cells |-> f[t]]],
              LAMBDA r : \A c \in 1..Len(r.cells) : ~IsNaN(r.cells[c]))

\* returns_from_prices(prices)
returns_from_prices(p, pad) == dropna(pct_change(p, pad))

\* the one call of a run
CallReturnsFromPrices ==
    /\ prices # <<>> /\ retOut = NoCall
    /\ retOut' = [fn |-> "returns_from_prices",
                  rows |-> returns_from_prices(prices, fillPad)]
    /\ UNCHANGED <<prices, fillPad>>
    /\ UNCHANGED <<riskVars, mcVars, varVars>>

RetNext == CallReturnsFromPrices

SpecRet == RetInit /\ [][RetNext]_vars

-----------------------------------------------------------------------------
(* Claims about the risk math *)

\* the sum of all entries of m divided by k^2, computed entry by entry
SumEntries(m) == FSum([i \in 1..Len(m) |-> FSum(m[i])])
MeanEntry(m) == FDiv(SumEntries(m), Num(Len(m) * Len(m)))

\* s is the non-negative number whose square is r, to the resolution of the
\* square root: s >= 0 and s^2 <= r < (s + 1/SqrtRes)^2
IsRootOf(s, r) ==
    /\ IsFinite(s) /\ s[1] >= 0
    /\ FLeq(FMul(s, s), r)
    /\ FLess(r, FMul(FAdd(s, Frac(1, SqrtRes)), FAdd(s, Frac(1, SqrtRes))))

FAbs(x) == <<Abs(x[1]), x[2]>>

ExampleCov == <<<<Pct(4), Pct(1)>>, <<Pct(1), Pct(9)>>>>

\* C3: risk decomposition.  For every sub-covariance with portfolio_sigma > 0 and
\* every ticker list, the sum over the tickers a of (1/k) * mrc_for_asset(a)
\* equals portfolio_sigma (to within three steps of the square root's
\* resolution), and the sum of (1/k) * (cov_P . w)[i] equals w . cov_P . w exactly.
C3_RiskDecomposition ==
    (riskOut.fn = "decomposition" /\ riskOut.out.val[1] > 0) =>
        LET n == Len(cov_P)
            w == EqualWeights(n)
            total == FSum([i \in 1..n |-> FMul(w[i], riskOut.mrcs[i].val)])
        IN /\ \A i \in 1..n : riskOut.mrcs[i].kind = "ok"
           /\ FLeq(FAbs(FSub(total, riskOut.out.val)), Frac(3, SqrtRes))
           /\ Dot(w, MatVec(cov_P, w)) = QuadForm(cov_P)

\* C3 witness: the MRCs of a 3 x 3 sub-covariance with a positive portfolio
\* sigma were computed, and they are not all equal
C3_Witness ==
    /\ riskOut.fn = "decomposition"
    /\ Len(cov_P) = 3
    /\ riskOut.out.val[1] > 0
    /\ riskOut.mrcs[1].kind = "ok"
    /\ riskOut.mrcs[1].val # riskOut.mrcs[2].val
    /\ riskOut.mrcs[1].val # riskOut.out.val

\* C4 as stated: portfolio_sigma is the non-negative root of the mean entry,
\* and for [[0.04, 0.01], [0.01, 0.09]] its square is 0.0125
C4_AsStated ==
    (riskOut.fn = "portfolio_sigma") =>
        /\ IsRootOf(riskOut.out.val, MeanEntry(cov_P))
        /\ (cov_P = ExampleCov => IsRootOf(riskOut.out.val, Frac(125, 10000)))

\* C4 amended: for every valid k x k sub-covariance, k >= 1, portfolio_sigma
\* returns the non-negative number whose square is the sum of the k * k entries
\* divided by k^2; for [[0.04, 0.01], [0.01, 0.09]] its square is 0.0375
C4_SigmaIsRoot ==
    (riskOut.fn = "portfolio_sigma") =>
        /\ riskOut.out.kind = "ok"
        /\ IsRootOf(riskOut.out.val, MeanEntry(cov_P))
        /\ (cov_P = ExampleCov => IsRootOf(riskOut.out.val, Frac(375, 10000)))

\* C4 witness: portfolio_sigma was called on the example matrix
C4_Witness ==
    /\ riskOut.fn = "portfolio_sigma"
    /\ cov_P = ExampleCov
    /\ riskOut.out.val = Frac(193, 1000)

-----------------------------------------------------------------------------
(* Claims about the Monte Carlo sampler and estimators *)

\* s holds pairwise distinct elements
Distinct(s) == \A i, j \in 1..Len(s) : i # j => s[i] # s[j]
Elems(s) == {s[i] : i \in 1..Len(s)}

\* the call recorded in r is an estimator call
IsEstimate(r) == r.fn \in {"sigma", "mrc"}

\* P is a portfolio of k pairwise distinct symbols of the universe, asset
\* among them
IsPortfolio(P) ==
    /\ Len(P) = k
    /\ Distinct(P)
    /\ Elems(P) \subseteq Elems(universe)
    /\ asset \in Elems(P)

\* C1: for a universe containing asset and 1 <= k <= |universe|, and whatever
\* the generator's state, the sampler returns exactly k pairwise distinct
\* symbols, all of the universe, asset among them; so does it in every trial
\* of an estimator loop
C1_SampleShape ==
    (asset \in Elems(universe) /\ 1 <= k /\ k <= Len(universe)) =>
        /\ last.fn = "sample" =>
              last.out.kind = "ok" /\ IsPortfolio(last.out.val)
        /\ IsEstimate(last) =>
              /\ num_sims > 0 => Len(last.Ps) > 0
              /\ \A i \in 1..Len(last.Ps) : IsPortfolio(last.Ps[i])

\* C1 witness: a second draw from the same generator returned three symbols
\* of which the first is not the smallest other
C1_Witness ==
    /\ last.fn = "sample" /\ last.out.kind = "ok"
    /\ asset \in Elems(universe)
    /\ k = 3 /\ Len(last.out.val) = 3
    /\ Len(last.rng.trace) = 1
    /\ last.out.val[1] > last.out.val[2]

\* C2: an estimator call returns what an earlier call of the same estimator
\* with the same seed (and the same universe, cov, asset, k, num_sims)
\* returned, whatever calls were made before or between the two
C2_Deterministic ==
    (IsEstimate(last) /\ IsEstimate(log)
        /\ last.fn = log.fn /\ last.seed = log.seed) =>
        last.out = log.out

\* C2 witness: a call repeats a noted earlier one whose two trials drew
\* different portfolios, after the caller drew from its own generator and
\* an estimator ran with another seed
C2_Witness ==
    /\ IsEstimate(last) /\ IsEstimate(log)
    /\ last.fn = log.fn /\ last.seed = log.seed
    /\ ~last.noted
    /\ last.out.kind = "ok"
    /\ Len(last.Ps) >= 2 /\ last.Ps[1] # last.Ps[2]
    /\ callerRng # <<>> /\ Len(callerRng.trace) >= 1
    /\ \E g \in DOMAIN oracle : g.seed # last.seed

\* the sampler cannot draw k - 1 symbols: k < 1, or fewer than k - 1 symbols
\* of the universe are other than asset
TooFewOthers == k < 1 \/ k - 1 > Cardinality(Elems(universe) \ {asset})

\* C5 as stated: the sampler fails whenever k < 1 or k - 1 > |universe| - 1,
\* for every universe, and the failure propagates out of the estimators
C5_AsStated ==
    (k < 1 \/ k - 1 > Len(universe) - 1) =>
        /\ last.fn = "sample" => last.out.kind # "ok"
        /\ (IsEstimate(last) /\ num_sims >= 1) => last.out.kind # "ok"

\* C5: the sampler fails exactly when k < 1 or k - 1 exceeds the number of
\* symbols of the universe other than asset (|universe| - 1 when the
\* universe contains asset, |universe| when it does not); an estimator that
\* runs at least one trial then fails the same way, with no trial value
C5_FailsIffTooFewOthers ==
    /\ last.fn = "sample" =>
          /\ last.out.kind = "ValueError" <=> TooFewOthers
          /\ last.out.kind \in {"ok", "ValueError"}
    /\ IsEstimate(last) =>
          /\ last.out.kind = "ValueError" <=> (TooFewOthers /\ num_sims >= 1)
          /\ last.out.kind = "ValueError" => last.vals = <<>> /\ last.Ps = <<>>

\* C5 witness: the sampler failed on a universe that does not contain asset
C5_Witness ==
    /\ last.fn = "sample" /\ last.out.kind = "ValueError"
    /\ asset \notin Elems(universe)
    /\ k = Len(universe) + 2

\* the equal-weight variance of the portfolio P under the frame cov
VarianceOf(P) ==
    MeanEntry([i \in 1..Len(P) |-> [j \in 1..Len(P) |-> cov[P[i]][P[j]]]])

\* C6 as stated: when a trial of expected_mrc meets a portfolio of zero
\* variance, the call fails and returns no number
C6_ZeroVarianceRaises ==
    (last.fn = "mrc"
        /\ \E i \in 1..Len(last.Ps) :
              /\ Elems(last.Ps[i]) \subseteq DOMAIN cov
              /\ VarianceOf(last.Ps[i]) = Zero) =>
        last.out.kind # "ok"

\* the unbiased sample variance of v: (sum of squares - (sum)^2 / n) / (n - 1)
SampleVariance(v) ==
    FDiv(FSub(FSum([i \in 1..Len(v) |-> FMul(v[i], v[i])]),
              FDiv(FMul(FSum(v), FSum(v)), Num(Len(v)))),
         Num(Len(v) - 1))

\* the portfolio made of what the generator seeded with seed returns to its
\* i-th request since creation
DrawnPortfolio(seed, i) ==
    LET oth == SelectSeq(universe, LAMBDA x : x # asset)
        req == <<Len(oth), k - 1>>
        idx == oracle[[seed |-> seed, trace |-> [j \in 1..i |-> req]]]
    IN [j \in 1..k |-> IF j < k THEN oth[idx[j]] ELSE asset]

\* C9: a call of expected_sigma_and_se that returns has run num_sims trials
\* in order, the i-th on the portfolio of the i-th draw of the generator
\* created from seed, each sigma being the root of the equal-weight variance
\* of its portfolio; it returns the mean of the sigmas and, for
\* num_sims >= 2, their ddof = 1 standard deviation over sqrt(num_sims); for
\* num_sims = 1 the mean is the one sigma and the standard error is NaN
C9_MeanAndStandardError ==
    (last.fn = "sigma" /\ last.out.kind = "ok" /\ num_sims >= 1) =>
        /\ Len(last.Ps) = num_sims /\ Len(last.vals) = num_sims
        /\ \A i \in 1..num_sims :
              /\ last.Ps[i] = DrawnPortfolio(last.seed, i)
              /\ IsRootOf(last.vals[i], VarianceOf(last.Ps[i]))
        /\ FMul(last.out.val[1], Num(num_sims)) = FSum(last.vals)
        /\ IF num_sims = 1
           THEN last.out.val[1] = last.vals[1] /\ IsNaN(last.out.val[2])
           ELSE IsRootOf(FMul(last.out.val[2], FSqrt(Num(num_sims))),
                         SampleVariance(last.vals))

\* C9 witness: a call returned after trials on portfolios of different sigma
C9_Witness ==
    /\ last.fn = "sigma" /\ last.out.kind = "ok" /\ num_sims >= 2
    /\ last.vals[1] # last.vals[2]
    /\ last.out.val[2][1] > 0

\* v is the asset's component of (cov_P . w) / sigma_p for the portfolio P:
\* the mean of the asset's row of cov over P, over the root of P's variance
ReadsRowOf(v, P) ==
    LET row == FDiv(FSum([j \in 1..Len(P) |-> cov[asset][P[j]]]), Num(Len(P)))
    IN IF VarianceOf(P) = Zero THEN ~IsFinite(v)
       ELSE IF row = Zero THEN v = Zero
       ELSE IsRootOf(FDiv(row, v), VarianceOf(P))

\* C10: for a universe within cov's index and 1 <= k <= |universe|, every
\* trial of expected_mrc finds asset at the last position of P and nowhere
\* before, never fails to find it, reads the component of the asset's own
\* row, and the call fails with KeyError exactly when a ticker of a sampled
\* P is absent from cov
C10_AssetRowRead ==
    (last.fn = "mrc" /\ Elems(universe) \subseteq DOMAIN cov
        /\ 1 <= k /\ k <= Len(universe) /\ num_sims >= 1) =>
        /\ last.out.kind \in {"ok", "KeyError"}
        /\ last.out.kind = "KeyError" <=>
              \E i \in 1..Len(last.Ps) : ~(Elems(last.Ps[i]) \subseteq DOMAIN cov)
        /\ \A i \in 1..Len(last.Ps) :
              /\ last.Ps[i][k] = asset
              /\ \A j \in 1..(k - 1) : last.Ps[i][j] # asset
        /\ \A i \in 1..Len(last.vals) : ReadsRowOf(last.vals[i], last.Ps[i])

\* C10 witness: a trial read a non-zero component for an asset that is not
\* the greatest ticker of its portfolio
C10_Witness ==
    /\ last.fn = "mrc" /\ last.out.kind = "ok" /\ num_sims >= 1
    /\ Elems(universe) \subseteq DOMAIN cov
    /\ Len(last.Ps[1]) >= 2 /\ last.Ps[1][1] > asset
    /\ IsFinite(last.vals[1]) /\ last.vals[1] # Zero

-----------------------------------------------------------------------------
(* Claims about the historical value at risk *)

\* the rows of the panel dated from start to end, both included
RowsIn(start, end) ==
    {i \in 1..Len(returns) : start <= returns[i].date /\ returns[i].date <= end}

\* the equal-weight mean of row i over the columns P
RowMean(i, P) ==
    FDiv(FSum([j \in 1..Len(P) |-> returns[i].cells[P[j]]]), Num(Len(P)))

\* the j-th smallest of the values f[i], i in I (none of them NaN): the value
\* with fewer than j values below it and at least j values not above it
OrderStat(f, I, j) ==
    CHOOSE x \in {f[i] : i \in I} :
        /\ Cardinality({i \in I : FLess(f[i], x)}) < j
        /\ Cardinality({i \in I : FLeq(f[i], x)}) >= j

\* the q-quantile of the values f[i], i in I, by linear interpolation between
\* the order statistics around position q * (|I| - 1), counted from 0
Quantile(f, I, q) ==
    LET n == Cardinality(I)
        h == FMul(q, Num(n - 1))
        lo == h[1] \div h[2]
    IN IF lo + 1 >= n THEN OrderStat(f, I, n)
       ELSE FAdd(OrderStat(f, I, lo + 1),
                 FMul(FSub(h, Num(lo)),
                      FSub(OrderStat(f, I, lo + 2), OrderStat(f, I, lo + 1))))

\* C7: for a confidence in [0, 1], historical_var returns the negated
\* (1 - confidence)-quantile, by linear interpolation, of the equal-weight row
\* means over the columns P of the rows dated in [start, end], rows with a
\* missing value left out (NaN when none is left); for the series
\* [-0.05, -0.02, 0.01, 0.03, 0.04] at confidence 0.95 it returns 0.044
C7_NegatedQuantile ==
    (varOut.fn = "historical_var"
        /\ FLeq(Zero, varOut.confidence) /\ FLeq(varOut.confidence, Num(1))) =>
        LET f == [i \in 1..Len(returns) |-> RowMean(i, varOut.P)] @@ <<>>
            I == {i \in RowsIn(varOut.start, varOut.end) : ~IsNaN(f[i])}
        IN /\ varOut.out.kind = "ok"
           /\ IF I = {} THEN IsNaN(varOut.out.val)
              ELSE varOut.out.val =
                      FNeg(Quantile(f, I, FSub(Num(1), varOut.confidence)))
           /\ (/\ varOut.confidence = Frac(95, 100)
               /\ Cardinality(I) = Len(ExampleSeries)
               /\ {f[i] : i \in I} = Elems(ExampleSeries)) =>
                  varOut.out.val = Frac(44, 1000)

\* C7 witness: the example series, out of order in a panel with another
\* column, gives 0.044 at confidence 0.95
C7_Witness ==
    /\ varOut.fn = "historical_var" /\ varOut.P = <<1>>
    /\ varOut.confidence = Frac(95, 100)
    /\ Len(returns) = Len(ExampleSeries)
    /\ returns[1].cells[1] = Pct(1)
    /\ \A i \in 1..Len(returns) : ~IsNaN(returns[i].cells[1])
    /\ varOut.start = 1 /\ varOut.end = DateOf(Len(returns))
    /\ varOut.out = Ok(Frac(44, 1000))

-----------------------------------------------------------------------------
(* Claims about the returns *)

\* the return of column c at row t is defined: both prices present, the
\* previous one not zero
HasReturn(t, c) ==
    /\ t > 1
    /\ ~IsNaN(prices[t][c]) /\ ~IsNaN(prices[t - 1][c])
    /\ prices[t - 1][c] # Zero

\* C8 as stated: the rows kept are those after the first in which every cell
\* has a defined return, every kept cell is (p[t] - p[t-1]) / p[t-1], and a
\* panel of n rows without missing or zero prices yields n - 1 rows
C8_RowsWithDefinedReturns ==
    retOut.fn = "returns_from_prices" =>
        /\ {retOut.rows[i].t : i \in 1..Len(retOut.rows)} =
              {t \in 1..Len(prices) : \A c \in 1..Len(prices[t]) : HasReturn(t, c)}
        /\ \A i \in 1..Len(retOut.rows) :
              LET t == retOut.rows[i].t
              IN \A c \in 1..Len(prices[t]) :
                    HasReturn(t, c) =>
                       retOut.rows[i].cells[c] =
                          FDiv(FSub(prices[t][c], prices[t - 1][c]), prices[t - 1][c])
        /\ (\A t \in 1..Len(prices) : \A c \in 1..Len(prices[t]) :
               ~IsNaN(prices[t][c]) /\ prices[t][c] # Zero) =>
              Len(retOut.rows) = Len(prices) - 1

====
